---- MODULE Spec2Model ----
(***************************************************************************)
(* Model of AutoUpdater (src/unnamed/part_001, the repository's            *)
(* src/autoupdater.ts): enumeration of open pull requests (pulls,          *)
(* pullsWithGraphQL), the eligibility decision (prNeedsUpdate), update and *)
(* the retrying merge.                                                     *)
(*                                                                         *)
(* The program is one asynchronous flow of control.  Every action below is *)
(* the code between two suspension points (await): it issues one network   *)
(* call, receives its response (drawn with \E from the responses the       *)
(* server can give) and runs the synchronous code that follows up to the   *)
(* next await or to the return of the handler.                             *)
(*                                                                         *)
(* The transport (octokit) rejects a call only with Error instances, so    *)
(* the tests "e instanceof Error" of the catch blocks are true for every   *)
(* failure of the model.  A failure is a record [status, message]; status  *)
(* 0 stands for an Error that carries no HTTP status.                      *)
(***************************************************************************)
EXTENDS Naturals, Sequences, FiniteSets, TLC

\* ------------------------------------------------------------------ bounds
MaxRetries == 2
MaxPages == 2
MaxPulls == 3

\* ------------------------------------------------------------- data model
Null == "null"
Undefined == "undefined"
\* null where the program expects an object
NullObj == [isNull |-> TRUE]

BaseOwner == "acme"
Owners == {"acme", "fork"}

Repo(o) == [name |-> "repo", owner |-> [login |-> o]]
Repos == {Repo(o) : o \in Owners}

\* Labels of a pull request: arrays of names; NoName is a label whose name is
\* undefined.
NoName == "<undefined>"
LabelLists == {<<>>, <<"dep">>, <<"wip">>, <<"wip", "dep">>, <<NoName, "dep">>}
ConfigLabelLists == {<<>>, <<"dep">>, <<"wip">>}

Includes(list, x) == \E i \in 1..Len(list) : list[i] = x

\* Responses of POST /repos/{owner}/{repo}/merges.
\* A response the transport resolves with (201 merged, 204 nothing to merge) or a
\* failure it rejects with.
Resp(ok, status, message) == [ok |-> ok, status |-> status, message |-> message]
HttpOk == {Resp(TRUE, 201, "Created"), Resp(TRUE, 204, "No Content")}
HttpErrors ==
    {Resp(FALSE, 403, "Forbidden"), Resp(FALSE, 403, "Merge conflict"),
     Resp(FALSE, 409, "Merge conflict"), Resp(FALSE, 500, "Server Error"),
     Resp(FALSE, 0, "socket hang up")}
MergeResponses == HttpOk \cup HttpErrors

NoOpts == [owner |-> Null, repo |-> Null, base |-> Null, head |-> Null,
           commit_message |-> Undefined]

NoPull == [number |-> 0]
\* Before the first query: nothing to iterate, hasNextPage = true, cursor = null
\* (pullsWithGraphQL, lines 268-269).
FirstPage == [left |-> 0, hasNextPage |-> TRUE, endCursor |-> NullObj]
NoArgs == [ref |-> <<>>, repoName |-> "", repoOwnerLogin |-> "", repoOwnerName |-> Undefined]

\* The pull request shapes update receives.
PullBase == [ref |-> "main", label |-> BaseOwner \o ":main"]
RestHead(o, r) == [ref |-> "feat", label |-> o \o ":feat", repo |-> r]

RestPulls ==
    [number : {1},
     state : {"open", "closed"},
     merged : BOOLEAN,
     draft : BOOLEAN,
     labels : LabelLists,
     base : {PullBase},
     head : {RestHead(o, Repo(o)) : o \in Owners} \cup {RestHead("fork", NullObj)},
     auto_merge : {Null, "enabled"}]

VARIABLES
    config,            \* ConfigLoader values, fixed for the run
    entry,             \* the method the run entered: merge, update, pulls, pullsWithGraphQL
    args,              \* arguments of pulls / pullsWithGraphQL
    pc,                \* control location
    pull,              \* the pull request under evaluation (update's argument)
    sourceEventOwner,  \* update's / merge's first argument
    mergeOpts,         \* MergeParameters built by update
    retries,           \* merge's retry counter
    trace,             \* calls (with their responses), delays and outputs of the
                       \* current update, in order
    needs,             \* how prNeedsUpdate ended for the current pull request
    mergeRet,          \* how merge ended for the current pull request
    upd,               \* how update ended for the current pull request
    updated,           \* pulls' local counter
    failed,            \* ghCore.setFailed was called
    thrown,            \* the entered method ended with an exception
    retBool,           \* value returned by update / merge when entered directly
    retNum,            \* value returned by pulls / pullsWithGraphQL
    page,              \* the page being iterated: pull requests left, hasNextPage, endCursor
    pageNo,            \* pages fetched so far
    succ,              \* number of update calls that returned true
    evaluated,         \* number of update calls made
    seen,              \* number of listed pull requests iterated so far
    node,              \* the graph node taken from the page last
    queries            \* cursors of the page queries issued, in order

vars == <<config, entry, args, pc, pull, sourceEventOwner, mergeOpts, retries, trace,
          needs, mergeRet, upd, updated, failed, thrown, retBool, retNum,
          page, pageNo, succ, evaluated, seen, node, queries>>

\* An entry of trace: a call with the response it got, a delay, an output.
Ev(name, res) == [ev |-> name, res |-> res]

\* ------------------------------------------------------------------ merge

\* helpers/isRequestError: the failure is an HTTP error that carries a status.
isRequestError(e) == e.status # 0

\* Mutant of doMerge: the 204 response is taken for a failure.
doMerge_NoOpFails(r) == r.ok /\ r.status # 204

\* doMerge, lines 670-687: resolves (with true) for every response the transport
\* does not reject, whatever its status (200/201 merged, 204 nothing to merge).
doMerge(r) == r.ok

\* Mutant of IsAuthDenied: the owners are compared with === instead of !==.
IsAuthDenied_SameOwner(e, srcOwner, opts) ==
    e.status # 0 /\ e.status = 403 /\ srcOwner = opts.owner

\* Mutant of IsAuthDenied: the owners are not compared.
IsAuthDenied_OwnerIgnored(e, srcOwner, opts) == e.status # 0 /\ e.status = 403

\* merge, lines 710-714: 403 against a repository the event's owner does not own.
IsAuthDenied(e, srcOwner, opts) ==
    isRequestError(e) /\ e.status = 403 /\ srcOwner # opts.owner

\* Mutant of IsMergeConflict: the message is compared with another text.
IsMergeConflict_WrongText(e) == e.message = "merge conflict"

\* merge, line 724.
IsMergeConflict(e) == e.message = "Merge conflict"

\* Mutant of ConflictIgnored: the configured action is not consulted.
ConflictIgnored_Never(action) == FALSE

\* merge, line 727.
ConflictIgnored(action) == action = "ignore"

\* Mutant of ShouldRetry: one retry too many.
ShouldRetry_OffByOne(n, retryCount) == n <= retryCount

\* merge, line 741.
ShouldRetry(n, retryCount) == n < retryCount

\* Mutant of SetOutput: the output is emitted twice.
SetOutput_Twice(t, v) ==
    Append(Append(t, Ev("conflicted", [value |-> v])), Ev("conflicted", [value |-> v]))

\* setOutputFn(Output.Conflicted, v)
SetOutput(t, v) == Append(t, Ev("conflicted", [value |-> v]))

\* Mutant of Counted: a failed update resets the count.
Counted_ResetOnFailure(n, isUpdated) == IF isUpdated THEN n + 1 ELSE 0

\* update, lines 475-485, and the loops of pulls (225-227) / pullsWithGraphQL
\* (380-382): what happens once update has its result.
Counted(n, isUpdated) == IF isUpdated THEN n + 1 ELSE n

UpdateReturns(r, setFailed) ==
    /\ upd' = (IF r THEN "true" ELSE "false")
    /\ failed' = (failed \/ setFailed)
    /\ thrown' = thrown
    /\ IF entry = "update"
       THEN /\ pc' = "done"
            /\ retBool' = r
            /\ UNCHANGED <<updated, succ>>
       ELSE /\ pc' = "iter"
            /\ retBool' = retBool
            /\ updated' = Counted(updated, r)
            /\ succ' = succ + (IF r THEN 1 ELSE 0)

\* merge returned r (r = "true" / "false") or threw (r = "throw").
MergeEnds(r) ==
    /\ mergeRet' = r
    /\ IF entry = "merge"
       THEN /\ pc' = "done"
            /\ thrown' = (r = "throw")
            /\ retBool' = (r = "true")
            /\ UNCHANGED <<upd, failed, updated, succ>>
       ELSE UpdateReturns(r = "true", r = "throw")

\* One pass of merge's while loop: lines 695-753 up to the next await.
MergeAttempt ==
    /\ pc = "merge"
    /\ \E r \in MergeResponses :
        LET t == Append(trace, Ev("merge", r)) IN
           IF doMerge(r)
           THEN /\ trace' = SetOutput(t, FALSE)
                /\ retries' = retries
                /\ MergeEnds("true")
           ELSE IF IsAuthDenied(r, sourceEventOwner, mergeOpts)
           THEN /\ trace' = SetOutput(t, FALSE)
                /\ retries' = retries
                /\ MergeEnds("false")
           ELSE IF IsMergeConflict(r)
           THEN /\ trace' = SetOutput(t, TRUE)
                /\ retries' = retries
                /\ IF ConflictIgnored(config.mergeConflictAction)
                   THEN MergeEnds("false")
                   ELSE MergeEnds("throw")
           ELSE IF ShouldRetry(retries, config.retryCount)
           THEN /\ trace' = t
                /\ retries' = retries + 1
                /\ pc' = "sleep"
                /\ UNCHANGED <<mergeRet, upd, failed, thrown, retBool, updated, succ>>
           ELSE /\ trace' = SetOutput(t, FALSE)
                /\ retries' = retries
                /\ MergeEnds("throw")
    /\ UNCHANGED <<config, entry, args, node, pull, sourceEventOwner, mergeOpts, needs, retNum,
                   page, pageNo, evaluated, seen, queries>>

\* merge, line 747: await sleep(retrySleep).
Sleep ==
    /\ pc = "sleep"
    /\ trace' = Append(trace, Ev("sleep", NullObj))
    /\ pc' = "merge"
    /\ UNCHANGED <<config, entry, args, node, pull, sourceEventOwner, mergeOpts, retries,
                   needs, mergeRet, upd, updated, failed, thrown, retBool,
                   retNum, page, pageNo, succ, evaluated, seen, queries>>

\* ---------------------------------------------------------- prNeedsUpdate

\* Mutant of SkippedBeforeCompare: the deleted fork is not tested.
SkippedBeforeCompare_NoRepoTest(p) == p.merged = TRUE \/ p.state # "open"

\* Lines 491-506: the guards before the first network call.
SkippedBeforeCompare(p) ==
    \/ p.merged = TRUE
    \/ p.state # "open"
    \/ p.head.repo = NullObj

\* Responses of compareCommitsWithBasehead: a failure, or behind_by.
CompareResponses == {[ok |-> FALSE, behind_by |-> 0]} \cup [ok : {TRUE}, behind_by : {0, 1}]

\* Responses of getBranch: a failure, or the branch with its protected flag.
BranchResponses == {[ok |-> FALSE, protected |-> FALSE]} \cup [ok : {TRUE}, protected : BOOLEAN]

\* Mutant of SkippedByComparison: behind_by is not looked at.
SkippedByComparison_BehindIgnored(cmp) == ~cmp.ok

\* Mutant of SkippedByComparison: the catch block does not return.
SkippedByComparison_FailurePasses(cmp) == cmp.ok /\ cmp.behind_by = 0

\* Lines 508-530: the comparison failed, or the head is not behind the base.
SkippedByComparison(cmp) == ~cmp.ok \/ cmp.behind_by = 0

\* Mutant of HasExcludedLabel: only the first label is tested.
HasExcludedLabel_FirstOnly(p, excludedLabels) ==
    /\ Len(excludedLabels) > 0
    /\ Len(p.labels) > 0
    /\ p.labels[1] # NoName
    /\ Includes(excludedLabels, p.labels[1])

\* Lines 534-548.
HasExcludedLabel(p, excludedLabels) ==
    /\ Len(excludedLabels) > 0
    /\ \E i \in 1..Len(p.labels) :
        /\ p.labels[i] # NoName
        /\ Includes(excludedLabels, p.labels[i])

\* Lines 550-567.
SkippedByReadyState(p, readyStateFilter) ==
    /\ readyStateFilter # "all"
    /\ \/ readyStateFilter = "draft" /\ ~p.draft
       \/ readyStateFilter = "ready_for_review" /\ p.draft

\* Mutant of LabelledDecision: every label must be in the list.
LabelledDecision_AllRequired(p, labels) ==
    /\ Len(labels) > 0
    /\ Len(p.labels) > 0
    /\ \A i \in 1..Len(p.labels) : Includes(labels, p.labels[i])

\* Lines 577-612.
LabelledDecision(p, labels) ==
    IF Len(labels) = 0 THEN FALSE
    ELSE IF Len(p.labels) = 0 THEN FALSE
    ELSE \E i \in 1..Len(p.labels) :
            /\ p.labels[i] # NoName
            /\ Includes(labels, p.labels[i])

\* Mutant of ProtectedDecision: the flag is read the wrong way round.
ProtectedDecision_Inverted(branch) == ~branch.protected

\* Lines 622-632.
ProtectedDecision(branch) == branch.protected

\* Lines 635-651: the test is auto_merge === null.
AutoMergeDecision(p) == p.auto_merge # Null

\* Mutant of DecisionAfterCompare: the protected filter is handled before the
\* excluded-label and ready-state tests.
DecisionAfterCompare_LookupFirst(p, cfg, cmp) ==
    IF SkippedByComparison(cmp) THEN "false"
    ELSE IF cfg.prFilter = "protected" THEN "getBranch"
    ELSE IF HasExcludedLabel(p, cfg.excludedLabels) THEN "false"
    ELSE IF SkippedByReadyState(p, cfg.readyState) THEN "false"
    ELSE IF cfg.prFilter = "labelled"
         THEN (IF LabelledDecision(p, cfg.prLabels) THEN "true" ELSE "false")
    ELSE IF cfg.prFilter = "auto_merge"
         THEN (IF AutoMergeDecision(p) THEN "true" ELSE "false")
    ELSE "true"

\* Lines 519-654, from the comparison's response on: "false", "true", or
\* "getBranch" when the decision needs the protection lookup (line 616).
DecisionAfterCompare(p, cfg, cmp) ==
    IF SkippedByComparison(cmp) THEN "false"
    ELSE IF HasExcludedLabel(p, cfg.excludedLabels) THEN "false"
    ELSE IF SkippedByReadyState(p, cfg.readyState) THEN "false"
    ELSE IF cfg.prFilter = "labelled"
         THEN (IF LabelledDecision(p, cfg.prLabels) THEN "true" ELSE "false")
    ELSE IF cfg.prFilter = "protected" THEN "getBranch"
    ELSE IF cfg.prFilter = "auto_merge"
         THEN (IF AutoMergeDecision(p) THEN "true" ELSE "false")
    ELSE "true"

\* ----------------------------------------------------------------- update

\* Mutant of MergeOptsFor: base and head are not swapped.
MergeOptsFor_NotSwapped(p, mergeMsg) ==
    [owner |-> p.head.repo.owner.login,
     repo |-> p.head.repo.name,
     base |-> p.base.ref,
     head |-> p.head.ref,
     commit_message |-> IF mergeMsg # Null /\ mergeMsg # "" THEN mergeMsg ELSE Undefined]

\* Lines 462-473.
MergeOptsFor(p, mergeMsg) ==
    [owner |-> p.head.repo.owner.login,
     repo |-> p.head.repo.name,
     base |-> p.head.ref,
     head |-> p.base.ref,
     commit_message |-> IF mergeMsg # Null /\ mergeMsg # "" THEN mergeMsg ELSE Undefined]

\* Mutant of DryRun: the setting is not consulted.
DryRun_Ignored(cfg) == FALSE

\* Line 448: this.config.dryRun().
DryRun(cfg) == cfg.dryRun

\* Lines 438-476: prNeedsUpdate returned r for p.
AfterNeedsUpdate(p, r) ==
    /\ needs' = (IF r THEN "true" ELSE "false")
    /\ mergeRet' = "none"
    /\ IF ~r
       THEN /\ UpdateReturns(FALSE, FALSE)
            /\ mergeOpts' = NoOpts /\ retries' = 0
       ELSE IF DryRun(config)
       THEN /\ UpdateReturns(TRUE, FALSE)
            /\ mergeOpts' = NoOpts /\ retries' = 0
       ELSE IF p.head.repo = NullObj
       THEN /\ UpdateReturns(FALSE, FALSE)
            /\ mergeOpts' = NoOpts /\ retries' = 0
       ELSE /\ mergeOpts' = MergeOptsFor(p, config.mergeMsg)
            /\ retries' = 0
            /\ pc' = "merge"
            /\ UNCHANGED <<upd, failed, thrown, retBool, updated, succ>>

\* update(sourceEventOwner, p) is called: lines 434-437 and 491-506.
BeginUpdate(p) ==
    /\ pull' = p
    /\ trace' = <<>>
    /\ evaluated' = evaluated + 1
    /\ IF SkippedBeforeCompare(p)
       THEN AfterNeedsUpdate(p, FALSE)
       ELSE /\ pc' = "compare"
            /\ needs' = "none" /\ mergeRet' = "none" /\ upd' = "none"
            /\ mergeOpts' = NoOpts /\ retries' = 0
            /\ UNCHANGED <<failed, thrown, retBool, updated, succ>>

\* update entered directly (handlePullRequest, line 104).
UpdateCall ==
    /\ pc = "update"
    /\ BeginUpdate(pull)
    /\ UNCHANGED <<config, entry, args, node, sourceEventOwner, retNum, page, pageNo, seen, queries>>

\* prNeedsUpdate, lines 508-654: the comparison call and what follows it.
Compare ==
    /\ pc = "compare"
    /\ \E cmp \in CompareResponses :
        /\ trace' = Append(trace, Ev("compare", cmp))
        /\ LET d == DecisionAfterCompare(pull, config, cmp) IN
            IF d = "getBranch"
            THEN /\ pc' = "getBranch"
                 /\ UNCHANGED <<needs, mergeRet, upd, mergeOpts, retries, failed, thrown,
                                retBool, updated, succ>>
            ELSE AfterNeedsUpdate(pull, d = "true")
    /\ UNCHANGED <<config, entry, args, node, pull, sourceEventOwner, retNum, page,
                   pageNo, evaluated, seen, queries>>

\* prNeedsUpdate, lines 614-633: the protection lookup.  The call is outside
\* every try block of prNeedsUpdate, update, pulls and pullsWithGraphQL: its failure
\* leaves them all as an exception.
GetBranch ==
    /\ pc = "getBranch"
    /\ \E br \in BranchResponses :
        /\ trace' = Append(trace, Ev("getBranch", br))
        /\ IF ~br.ok
           THEN /\ needs' = "throw" /\ upd' = "throw"
                /\ thrown' = TRUE
                /\ pc' = "done"
                /\ UNCHANGED <<mergeRet, mergeOpts, retries, failed, retBool, updated, succ>>
           ELSE AfterNeedsUpdate(pull, ProtectedDecision(br))
    /\ UNCHANGED <<config, entry, args, node, pull, sourceEventOwner, retNum, page,
                   pageNo, evaluated, seen, queries>>

\* ------------------------------------------------------------ enumeration

\* String.prototype.toLowerCase on the states of the graph API.
ToLowerCase(str) ==
    CASE str = "OPEN" -> "open"
      [] str = "CLOSED" -> "closed"
      [] str = "MERGED" -> "merged"
      [] OTHER -> str

\* Nodes of the graph query (GraphQLPullRequestNode).
GraphLabelLists == {<<>>, <<"dep">>, <<"wip">>, <<"wip", "dep">>}
GraphNodes ==
    [number : {1},
     state : {"OPEN", "CLOSED", "MERGED"},
     merged : BOOLEAN,
     isDraft : BOOLEAN,
     labels : [nodes : GraphLabelLists],
     baseRef : {[name |-> "main"]},
     headRef : {NullObj, [name |-> "feat"]},
     headRepository : Repos \cup {NullObj}]

\* Mutant of convertGraphQLPRToREST: a node without headRef is converted too.
convertGraphQLPRToREST_NoHeadRefTest(pr, owner) ==
    [number |-> pr.number,
     state |-> ToLowerCase(pr.state),
     merged |-> pr.merged,
     draft |-> pr.isDraft,
     labels |-> pr.labels.nodes,
     base |-> [ref |-> pr.baseRef.name, label |-> owner \o ":" \o pr.baseRef.name],
     head |-> [ref |-> IF pr.headRef = NullObj THEN Undefined ELSE pr.headRef.name,
               label |-> Undefined,
               repo |-> pr.headRepository],
     auto_merge |-> Undefined]

\* convertGraphQLPRToREST, lines 396-428.  The result has no auto_merge field.
convertGraphQLPRToREST(pr, owner) ==
    IF pr.headRef = NullObj THEN NullObj
    ELSE [number |-> pr.number,
          state |-> ToLowerCase(pr.state),
          merged |-> pr.merged,
          draft |-> pr.isDraft,
          labels |-> pr.labels.nodes,
          base |-> [ref |-> pr.baseRef.name, label |-> owner \o ":" \o pr.baseRef.name],
          head |-> [ref |-> pr.headRef.name,
                    label |-> IF pr.headRepository # NullObj
                              THEN pr.headRepository.owner.login \o ":" \o pr.headRef.name
                              ELSE pr.headRef.name,
                    repo |-> pr.headRepository],
          auto_merge |-> Undefined]

\* The pull requests a listing returns in the runs of pulls / pullsWithGraphQL:
\* the plain open pull request and those that differ from it in one attribute.
B2N(b) == IF b THEN 1 ELSE 0
PlainPull ==
    [number |-> 1, state |-> "open", merged |-> FALSE, draft |-> FALSE, labels |-> <<>>,
     base |-> PullBase, head |-> RestHead(BaseOwner, Repo(BaseOwner)), auto_merge |-> Null]
ListedPulls ==
    {p \in RestPulls :
        B2N(p.state # PlainPull.state) + B2N(p.merged # PlainPull.merged)
        + B2N(p.draft # PlainPull.draft) + B2N(p.labels # PlainPull.labels)
        + B2N(p.head # PlainPull.head) + B2N(p.auto_merge # PlainPull.auto_merge) <= 1}
PlainNode ==
    [number |-> 1, state |-> "OPEN", merged |-> FALSE, isDraft |-> FALSE,
     labels |-> [nodes |-> <<>>], baseRef |-> [name |-> "main"],
     headRef |-> [name |-> "feat"], headRepository |-> Repo(BaseOwner)]
ListedNodes ==
    {n \in GraphNodes :
        B2N(n.state # PlainNode.state) + B2N(n.merged # PlainNode.merged)
        + B2N(n.isDraft # PlainNode.isDraft) + B2N(n.labels # PlainNode.labels)
        + B2N(n.headRef # PlainNode.headRef)
        + B2N(n.headRepository # PlainNode.headRepository) <= 1}

\* A ref is its text cut into the prefix tested by startsWith and the rest.
HeadsPrefix == "refs/heads/"
StartsWith(ref, prefix) == Len(ref) > 0 /\ ref[1] = prefix

\* ref.replace('refs/heads/', ''), lines 194 and 249.
RECURSIVE Replace(_, _)
Replace(ref, prefix) ==
    IF ref = <<>> THEN ""
    ELSE IF Head(ref) = prefix THEN Replace(Tail(ref), "<replaced>")
    ELSE Head(ref) \o Replace(Tail(ref), prefix)

\* repoOwnerName ?? repoOwnerLogin, lines 196 and 250.
Coalesce(a, b) == IF a = Undefined \/ a = Null THEN b ELSE a

\* Mutant of Rejected: the repository name is not tested.
Rejected_NameUnchecked(a) ==
    IF ~StartsWith(a.ref, HeadsPrefix) THEN "ref"
    ELSE IF Coalesce(a.repoOwnerName, a.repoOwnerLogin) = "" THEN "owner"
    ELSE "none"

\* Lines 189-205 and 244-259: the reason to return 0 without any call, or "none".
Rejected(a) ==
    IF ~StartsWith(a.ref, HeadsPrefix) THEN "ref"
    ELSE IF Coalesce(a.repoOwnerName, a.repoOwnerLogin) = "" THEN "owner"
    ELSE IF a.repoName = "" THEN "name"
    ELSE "none"

\* pulls / pullsWithGraphQL are called: lines 189-215 and 244-269.
Start ==
    /\ pc = "start"
    /\ IF Rejected(args) # "none"
       THEN /\ pc' = "done"
            /\ retNum' = 0
            /\ UNCHANGED sourceEventOwner
       ELSE /\ pc' = "iter"
            /\ sourceEventOwner' = Coalesce(args.repoOwnerName, args.repoOwnerLogin)
            /\ retNum' = retNum
    /\ updated' = 0
    /\ page' = FirstPage
    /\ UNCHANGED <<config, entry, args, node, pull, mergeOpts, retries, trace, needs,
                   mergeRet, upd, failed, thrown, retBool, pageNo, succ, evaluated, seen,
                   queries>>

\* Mutant of AtLoopHead: update is called without await.
AtLoopHead_UpdateNotAwaited == pc \in {"iter", "compare", "getBranch", "merge", "sleep"}

\* The loops of pulls (218-229) and pullsWithGraphQL (271, 365-387) are at their
\* head: the update they awaited (lines 222, 376) has resolved.
AtLoopHead == pc = "iter"

\* A page as the server answers it: its length (the listing holds at most
\* MaxPulls pull requests), whether another follows (the chain of pages is finite)
\* and its end cursor.
Pages ==
    {[left |-> n, hasNextPage |-> more, endCursor |-> [after |-> pageNo + 1]] :
        n \in 0..(MaxPulls - seen), more \in {b \in BOOLEAN : b => pageNo + 1 < MaxPages}}

\* pulls, line 218: the iterator requests the next page of the listing.  A
\* failure of the request is caught nowhere in pulls.
ListPage ==
    /\ AtLoopHead /\ entry = "pulls"
    /\ page.left = 0 /\ page.hasNextPage
    /\ pageNo' = pageNo + 1
    /\ \E ok \in BOOLEAN :
        IF ok
        THEN /\ \E pg \in Pages : page' = pg
             /\ queries' = Append(queries, [cursor |-> page.endCursor, outcome |-> "page"])
             /\ UNCHANGED <<pc, thrown>>
        ELSE /\ queries' = Append(queries, [cursor |-> page.endCursor, outcome |-> "error"])
             /\ pc' = "done"
             /\ thrown' = TRUE
             /\ page' = page
    /\ UNCHANGED <<config, entry, args, node, pull, sourceEventOwner, mergeOpts, retries, trace,
                   needs, mergeRet, upd, updated, failed, retBool, retNum, succ,
                   evaluated, seen>>

\* The ways the graph query fails: an Error with a status, an Error without
\* one, a value that is no Error.
QueryFailures == {"401", "403", "429", "500", "error", "unknown"}

\* Mutant of CatchQueryFailure: an authentication failure fails the run.
CatchQueryFailure_AuthFailsRun(f, n) ==
    [returns |-> n, setFailed |-> f \in {"401", "403"}]

\* pullsWithGraphQL, lines 333-361: every branch of the catch block logs a
\* diagnostic and reaches "return updated"; none calls setFailed.
CatchQueryFailure(f, n) == [returns |-> n, setFailed |-> FALSE]

\* Mutant of CursorAfter: the cursor is never advanced.
CursorAfter_Null(pg) == NullObj

\* pullsWithGraphQL, lines 269, 331 and 386: the cursor sent with a query is the
\* endCursor of the page before (null before the first).
CursorAfter(pg) == pg.endCursor

\* pullsWithGraphQL, lines 271-363 and 385-386: the loop test, the query with
\* the cursor of the page before, and the catch block that returns updated.
QueryPage ==
    /\ AtLoopHead /\ entry = "pullsWithGraphQL"
    /\ page.left = 0 /\ page.hasNextPage
    /\ pageNo' = pageNo + 1
    /\ \/ /\ \E pg \in Pages : page' = pg
          /\ queries' = Append(queries, [cursor |-> CursorAfter(page), outcome |-> "page"])
          /\ UNCHANGED <<pc, retNum, failed>>
       \/ /\ \E f \in QueryFailures :
                /\ queries' = Append(queries, [cursor |-> CursorAfter(page), outcome |-> f])
                /\ retNum' = CatchQueryFailure(f, updated).returns
                /\ failed' = (failed \/ CatchQueryFailure(f, updated).setFailed)
          /\ pc' = "done"
          /\ page' = page
    /\ UNCHANGED <<config, entry, args, node, pull, sourceEventOwner, mergeOpts, retries, trace,
                   needs, mergeRet, upd, updated, thrown, retBool, succ,
                   evaluated, seen>>

\* pulls, lines 220-222: the next pull request of the page goes to update.
IterRest ==
    /\ AtLoopHead /\ entry = "pulls"
    /\ page.left > 0
    /\ page' = [page EXCEPT !.left = @ - 1]
    /\ seen' = seen + 1
    /\ \E p \in ListedPulls : BeginUpdate([p EXCEPT !.number = seen + 1])
    /\ UNCHANGED <<config, entry, args, node, sourceEventOwner, retNum, pageNo, queries>>

\* pullsWithGraphQL, lines 365-376: the next node of the page is converted and,
\* unless the conversion drops it, goes to update.
IterGraph ==
    /\ AtLoopHead /\ entry = "pullsWithGraphQL"
    /\ page.left > 0
    /\ page' = [page EXCEPT !.left = @ - 1]
    /\ seen' = seen + 1
    /\ \E n \in ListedNodes :
        LET pr == [n EXCEPT !.number = seen + 1]
            pullForUpdate == convertGraphQLPRToREST(pr, sourceEventOwner)
        IN  /\ node' = pr
            /\ IF pullForUpdate = NullObj
               THEN UNCHANGED <<pc, pull, trace, evaluated, needs, mergeRet, upd,
                                mergeOpts, retries, failed, thrown, retBool, updated, succ>>
               ELSE BeginUpdate(pullForUpdate)
    /\ UNCHANGED <<config, entry, args, sourceEventOwner, retNum, pageNo, queries>>

\* Lines 231-235 and 389-393: no page is left, the count is returned.
ReturnUpdated ==
    /\ AtLoopHead
    /\ page.left = 0 /\ ~page.hasNextPage
    /\ pc' = "done"
    /\ retNum' = updated
    /\ UNCHANGED <<config, entry, args, node, pull, sourceEventOwner, mergeOpts, retries, trace,
                   needs, mergeRet, upd, updated, failed, thrown, retBool, page,
                   pageNo, succ, evaluated, seen, queries>>

\* ------------------------------------------------------------ configuration
Configs ==
    [dryRun : BOOLEAN,
     retryCount : 0..MaxRetries,
     mergeConflictAction : {"fail", "ignore"},
     excludedLabels : ConfigLabelLists,
     readyState : {"all", "draft", "ready_for_review"},
     prFilter : {"all", "labelled", "protected", "auto_merge"},
     prLabels : ConfigLabelLists,
     mergeMsg : {Null, "", "msg"}]

\* The values merge reads: retryCount and mergeConflictAction.
MergeConfigs ==
    {c \in Configs : /\ ~c.dryRun /\ c.excludedLabels = <<>> /\ c.readyState = "all"
                     /\ c.prFilter = "all" /\ c.prLabels = <<>> /\ c.mergeMsg = ""}


Idle ==
    /\ pull = NoPull
    /\ retries = 0
    /\ trace = <<>>
    /\ needs = "none"
    /\ mergeRet = "none"
    /\ upd = "none"
    /\ updated = 0
    /\ failed = FALSE
    /\ thrown = FALSE
    /\ retBool = FALSE
    /\ retNum = 0
    /\ page = FirstPage
    /\ pageNo = 0
    /\ succ = 0
    /\ evaluated = 0
    /\ seen = 0
    /\ node = NoPull
    /\ queries = <<>>

\* merge(sourceEventOwner, prNumber, mergeOpts) entered directly.
InitMerge ==
    /\ config \in MergeConfigs
    /\ entry = "merge"
    /\ args = NoArgs
    /\ pc = "merge"
    /\ sourceEventOwner \in Owners
    /\ mergeOpts \in [owner : Owners, repo : {"repo"}, base : {"feat"}, head : {"main"},
                      commit_message : {Undefined}]
    /\ Idle

\* update(sourceEventOwner, pull) entered directly, with the configurations cfgs.
InitUpdate(cfgs, pulls) ==
    /\ config \in cfgs
    /\ entry = "update"
    /\ args = NoArgs
    /\ pc = "update"
    /\ sourceEventOwner \in Owners
    /\ mergeOpts = NoOpts
    /\ pull \in pulls
    /\ retries = 0 /\ trace = <<>>
    /\ needs = "none" /\ mergeRet = "none" /\ upd = "none"
    /\ updated = 0 /\ failed = FALSE /\ thrown = FALSE
    /\ retBool = FALSE /\ retNum = 0
    /\ page = FirstPage /\ pageNo = 0
    /\ succ = 0 /\ evaluated = 0 /\ seen = 0 /\ node = NoPull /\ queries = <<>>

\* The pull requests update can be given: those of the REST listing and of the
\* pull_request event, and the conversions of graph nodes.
ConvertedPulls ==
    {convertGraphQLPRToREST(n, BaseOwner) : n \in {m \in GraphNodes : m.headRef # NullObj}}
UpdatePulls == RestPulls \cup ConvertedPulls

\* The values prNeedsUpdate and update read before merge.
DecideConfigs ==
    {c \in Configs : /\ c.retryCount = 1 /\ c.mergeConflictAction = "fail"
                     /\ c.mergeMsg = ""}
InitDecide == InitUpdate(DecideConfigs, UpdatePulls)

\* pulls / pullsWithGraphQL entered (handlePush, lines 77-91).
RunConfigs ==
    {c \in Configs : /\ c.excludedLabels = <<"wip">> /\ c.readyState = "all"
                     /\ c.prLabels = <<"dep">> /\ c.mergeMsg = ""
                     /\ c.retryCount \in {0, 1}}
RunArgs ==
    [ref : {<<HeadsPrefix, "main">>, <<"refs/tags/", "main">>},
     repoName : {"repo", ""},
     repoOwnerLogin : {BaseOwner, ""},
     repoOwnerName : {Undefined, ""}]
Init ==
    /\ config \in RunConfigs
    /\ entry \in {"pulls", "pullsWithGraphQL"}
    /\ args \in RunArgs
    /\ pc = "start"
    /\ sourceEventOwner = Undefined
    /\ mergeOpts = NoOpts
    /\ Idle

NextMerge == MergeAttempt \/ Sleep
NextUpdate == UpdateCall \/ Compare \/ GetBranch \/ MergeAttempt \/ Sleep

Next ==
    \/ Start \/ ListPage \/ QueryPage \/ IterRest \/ IterGraph \/ ReturnUpdated
    \/ Compare \/ GetBranch \/ MergeAttempt \/ Sleep

SpecDecide == InitDecide /\ [][NextUpdate]_vars
Spec == Init /\ [][Next]_vars

SpecMerge == InitMerge /\ [][NextMerge]_vars

\* The values update and merge read once the decision is taken.
UpdateConfigs ==
    {c \in Configs : /\ c.excludedLabels = <<>> /\ c.readyState = "all"
                     /\ c.prFilter \in {"all", "protected"} /\ c.prLabels = <<>>}
InitUpdateMerge == InitUpdate(UpdateConfigs, UpdatePulls)
SpecUpdate == InitUpdateMerge /\ [][NextUpdate]_vars

\* pullsWithGraphQL entered with valid arguments.  The flow of control always
\* goes on: every awaited call is answered and every delay ends.
GraphConfigs ==
    {c \in RunConfigs : /\ ~c.dryRun /\ c.mergeConflictAction = "fail"
                        /\ c.prFilter \in {"all", "protected"}}
GraphArgs == {a \in RunArgs : Rejected(a) = "none"}
InitGraph ==
    /\ config \in GraphConfigs
    /\ entry = "pullsWithGraphQL"
    /\ args \in GraphArgs
    /\ pc = "start"
    /\ sourceEventOwner = Undefined
    /\ mergeOpts = NoOpts
    /\ Idle
NextGraph ==
    \/ Start \/ QueryPage \/ IterGraph \/ ReturnUpdated
    \/ Compare \/ GetBranch \/ MergeAttempt \/ Sleep
SpecGraph == InitGraph /\ [][NextGraph]_vars /\ WF_vars(NextGraph)

\* --------------------------------------------------------------- properties

IsMergeEvent(e) == e.ev \in {"merge", "sleep", "conflicted"}
IsMergeCall(e) == e.ev = "merge"
IsOutput(e) == e.ev = "conflicted"
\* The merge attempt sequence of the current update, its calls, its outputs.
MergeTrace == SelectSeq(trace, IsMergeEvent)
MergeCalls == SelectSeq(trace, IsMergeCall)
Outputs == SelectSeq(trace, IsOutput)
Attempted == MergeCalls # <<>>
LastResp == MergeCalls[Len(MergeCalls)].res
OutputOf(v) == Ev("conflicted", [value |-> v])

\* The failure classes as the specification words them.
ConflictSignature(r) == ~r.ok /\ r.message = "Merge conflict"
ForeignForbidden(r) == ~r.ok /\ r.status = 403 /\ sourceEventOwner # mergeOpts.owner
Transient(r) == ~r.ok /\ ~ConflictSignature(r) /\ ~ForeignForbidden(r)

\* k merge calls answered rs[1..k], one delay between each two consecutive calls.
RECURSIVE Attempts(_, _)
Attempts(rs, k) ==
    IF k = 0 THEN <<>>
    ELSE IF k = 1 THEN <<rs[1]>>
    ELSE Attempts(rs, k - 1) \o <<Ev("sleep", NullObj), rs[k]>>
\* The attempt sequence ended at its latest call with the output v and nothing after.
EndedWith(v) == MergeTrace = Attempts(MergeCalls, Len(MergeCalls)) \o <<OutputOf(v)>>

\* C1: when every attempt of merge fails with a failure that is neither a merge
\* conflict nor a 403 against a foreign owner and the retry count is N, the calls
\* and delays alternate (one delay between two calls), merge ends only after call
\* N+1, with N delays taken, by propagating the failure with conflicted = false.
C1_RetriesThenFatal ==
    (Attempted /\ \A i \in 1..Len(MergeCalls) : Transient(MergeCalls[i].res)) =>
        LET k == Len(MergeCalls) IN
        /\ k <= config.retryCount + 1
        /\ k <= config.retryCount =>
              /\ mergeRet = "none"
              /\ Outputs = <<>>
              /\ \/ pc = "sleep" /\ MergeTrace = Attempts(MergeCalls, k)
                 \/ pc = "merge" /\ MergeTrace = Attempts(MergeCalls, k) \o <<Ev("sleep", NullObj)>>
        /\ k = config.retryCount + 1 =>
              /\ mergeRet = "throw"
              /\ entry = "merge" => (thrown /\ pc = "done")
              /\ EndedWith(FALSE)
              /\ Len(SelectSeq(trace, LAMBDA e : e.ev = "sleep")) = config.retryCount
C1_Witness ==
    /\ entry = "merge" /\ config.retryCount = 2 /\ Len(MergeCalls) = 3
    /\ \A i \in 1..3 : Transient(MergeCalls[i].res)
    /\ mergeRet = "throw" /\ thrown

\* C4 as stated: with conflict action = ignore, an attempt that fails with the
\* merge-conflict signature records conflicted = true, merge returns false without
\* an error, and no call or delay follows.
C4_Original ==
    (Attempted /\ config.mergeConflictAction = "ignore" /\ ConflictSignature(LastResp)) =>
        /\ mergeRet = "false"
        /\ ~thrown
        /\ pc \notin {"merge", "sleep"}
        /\ EndedWith(TRUE)
\* C4, amended: the same for an attempt that fails with the merge-conflict
\* signature and is not a 403 against a foreign owner; on the first attempt the
\* sequence is one merge call followed by the output.
C4_ConflictIgnored ==
    (/\ Attempted /\ config.mergeConflictAction = "ignore"
     /\ ConflictSignature(LastResp) /\ ~ForeignForbidden(LastResp)) =>
        /\ mergeRet = "false"
        /\ ~thrown
        /\ pc \notin {"merge", "sleep"}
        /\ EndedWith(TRUE)
        /\ entry = "merge" => (pc = "done" /\ ~retBool)
C4_Witness ==
    /\ entry = "merge" /\ config.mergeConflictAction = "ignore" /\ config.retryCount = 2
    /\ Len(MergeCalls) = 1 /\ ConflictSignature(LastResp) /\ ~ForeignForbidden(LastResp)
    /\ mergeRet = "false" /\ trace = <<MergeCalls[1], OutputOf(TRUE)>>

\* C5 as stated: with a conflict action other than ignore, an attempt that fails
\* with the merge-conflict signature records conflicted = true, is not retried and
\* the failure propagates out of merge.
C5_Original ==
    (Attempted /\ config.mergeConflictAction # "ignore" /\ ConflictSignature(LastResp)) =>
        /\ mergeRet = "throw"
        /\ pc \notin {"merge", "sleep"}
        /\ EndedWith(TRUE)
\* C5, amended: the same for an attempt that fails with the merge-conflict
\* signature and is not a 403 against a foreign owner, whatever retry budget is left.
C5_ConflictFatal ==
    (/\ Attempted /\ config.mergeConflictAction # "ignore"
     /\ ConflictSignature(LastResp) /\ ~ForeignForbidden(LastResp)) =>
        /\ mergeRet = "throw"
        /\ pc \notin {"merge", "sleep"}
        /\ EndedWith(TRUE)
        /\ entry = "merge" => (pc = "done" /\ thrown)
C5_Witness ==
    /\ entry = "merge" /\ config.mergeConflictAction # "ignore" /\ config.retryCount = 2
    /\ Len(MergeCalls) = 1 /\ ConflictSignature(LastResp) /\ ~ForeignForbidden(LastResp)
    /\ mergeRet = "throw" /\ thrown /\ retries = 0

\* C6: an attempt that fails with 403 while sourceEventOwner differs from the
\* merge request's owner ends the sequence: no call and no delay follow,
\* conflicted = false is recorded, merge returns false, no error propagates and
\* the run is not marked failed.
C6_AuthDenied ==
    (Attempted /\ ForeignForbidden(LastResp)) =>
        /\ mergeRet = "false"
        /\ pc = "done"
        /\ EndedWith(FALSE)
        /\ ~thrown
        /\ ~failed
        /\ upd = "false" /\ ~retBool
C6_Witness ==
    /\ Len(MergeCalls) = 2 /\ ForeignForbidden(LastResp) /\ LastResp.message = "Forbidden"
    /\ config.retryCount = 2
    /\ mergeRet = "false" /\ pc = "done" /\ ~failed

\* C7 as stated: the conflicted output is written exactly once, when the attempt
\* sequence reaches its terminal state, never before, and its value is true if
\* and only if the final attempt failed with the merge-conflict signature.
C7_Original ==
    /\ mergeRet = "none" => Outputs = <<>>
    /\ mergeRet # "none" =>
          /\ Len(Outputs) = 1
          /\ MergeTrace[Len(MergeTrace)] = Outputs[1]
          /\ Outputs[1].res.value = ConflictSignature(LastResp)
\* C7, amended: the value is true if and only if the final attempt failed with
\* the merge-conflict signature and was not a 403 against a foreign owner.
C7_OutputOnce ==
    /\ mergeRet = "none" => Outputs = <<>>
    /\ mergeRet # "none" =>
          /\ Len(Outputs) = 1
          /\ MergeTrace[Len(MergeTrace)] = Outputs[1]
          /\ Outputs[1].res.value
                = (ConflictSignature(LastResp) /\ ~ForeignForbidden(LastResp))
C7_Witness ==
    /\ entry = "merge" /\ Len(MergeCalls) = 3 /\ mergeRet = "false"
    /\ Transient(MergeCalls[1].res) /\ Transient(MergeCalls[2].res)
    /\ ConflictSignature(LastResp) /\ Outputs = <<OutputOf(TRUE)>>

\* C8: an attempt whose call returns without error makes merge return true with
\* conflicted = false; on the first attempt that is one merge call and no delay.
C8_Success ==
    (Attempted /\ LastResp.ok) =>
        /\ mergeRet = "true"
        /\ ~thrown
        /\ EndedWith(FALSE)
        /\ entry = "merge" => (pc = "done" /\ retBool)
        /\ retries = 0 => trace = <<MergeCalls[1], OutputOf(FALSE)>>
C8_Witness ==
    /\ entry = "merge" /\ Len(MergeCalls) = 1 /\ LastResp.ok /\ LastResp.status = 204
    /\ mergeRet = "true" /\ retBool /\ trace = <<MergeCalls[1], OutputOf(FALSE)>>

\* C2: with PR filter = protected, a failed branch-protection lookup makes the
\* pull request not eligible (needsUpdate false, no merge call) and does not
\* abort the run: the enumeration goes on with the pull requests that follow.
C2_LookupFailureRecoverable ==
    (/\ config.prFilter = "protected" /\ trace # <<>>
     /\ trace[Len(trace)].ev = "getBranch" /\ ~trace[Len(trace)].res.ok) =>
        /\ needs = "false"
        /\ ~Attempted
        /\ ~thrown
        /\ pc = "iter" \/ (pc = "done" /\ page.left = 0)

\* C3: with PR filter = auto_merge, needsUpdate returns true only for a summary
\* whose autoMerge metadata is present, whichever enumeration produced it.
C3_AutoMergeNeedsMetadata ==
    (config.prFilter = "auto_merge" /\ needs = "true") =>
        pull.auto_merge \notin {Null, Undefined}

\* C9: a fatal failure of merge on one pull request marks the run failed, leaves
\* the updated count as it was, and leaves the orchestrator in its loop at the
\* same place of the page, so that the pull requests after it are evaluated; the
\* run stays marked failed, the count never decreases and equals the number of
\* updates that returned true, which is the count returned.
C9_FatalContinues ==
    /\ [][(pc = "merge" /\ mergeRet' = "throw") =>
            /\ failed' /\ upd' = "false"
            /\ updated' = updated
            /\ ~thrown' /\ pc' = "iter" /\ page' = page]_vars
    /\ [][(failed => failed') /\ updated' >= updated]_vars
    /\ [](updated = succ)
    /\ []((failed /\ pc = "iter" /\ page.left > 0) => ENABLED (IterRest \/ IterGraph))
    /\ []((pc = "done" /\ ~thrown /\ Rejected(args) = "none") => retNum = succ)
C9_Witness ==
    /\ entry = "pulls" /\ failed /\ pc = "done" /\ ~thrown
    /\ evaluated = 3 /\ retNum = 2 /\ mergeRet = "true"

\* C10: for a summary that is merged, or not open, or without head repository,
\* needsUpdate returns false and no call at all (comparison, protection lookup,
\* merge) is issued, whatever the filters are.
C10_NoCallBeforeGuards ==
    (pc # "update" /\ (pull.merged \/ pull.state # "open" \/ pull.head.repo = NullObj)) =>
        /\ needs = "false"
        /\ upd = "false"
        /\ trace = <<>>
        /\ pc = "done" /\ ~retBool /\ ~thrown
C10_Witness ==
    /\ pc = "done" /\ pull.head.repo = NullObj /\ ~pull.merged /\ pull.state = "open"
    /\ config.prFilter = "protected" /\ config.readyState = "all"
    /\ needs = "false" /\ trace = <<>>

\* The comparison and protection-lookup calls of the current update.
CompareCalls == SelectSeq(trace, LAMBDA e : e.ev = "compare")
BranchCalls == SelectSeq(trace, LAMBDA e : e.ev = "getBranch")
Compared == CompareCalls # <<>>
LastCmp == CompareCalls[Len(CompareCalls)].res
LastEvent == trace[Len(trace)]
CompareFailure == Ev("compare", [ok |-> FALSE, behind_by |-> 0])

\* C11: when the comparison reports behind_by = 0, needsUpdate returns false
\* under every configuration of excluded labels, ready state, PR filter and
\* allow-list; the comparison is the only call of that update: no protection
\* lookup and no merge call is issued.
C11_UpToDateNeverEligible ==
    (Compared /\ LastCmp.ok /\ LastCmp.behind_by = 0) =>
        /\ needs = "false"
        /\ upd = "false"
        /\ trace = <<Ev("compare", LastCmp)>>
        /\ ~Attempted
        /\ pc = "done" /\ ~retBool /\ ~failed /\ ~thrown
C11_Witness ==
    /\ Compared /\ LastCmp.ok /\ LastCmp.behind_by = 0
    /\ config.prFilter = "labelled" /\ config.prLabels = <<"dep">>
    /\ pull.labels = <<"dep">> /\ config.excludedLabels = <<>>
    /\ config.readyState = "all" /\ ~config.dryRun
    /\ needs = "false" /\ pc = "done"

\* C12: a comparison call that fails makes needsUpdate and update return false
\* for that pull request with no further call; the step neither marks the run
\* failed nor ends it, the count and the place in the page are kept, and the loop
\* takes the pull request that follows.
C12_CompareFailureRecoverable ==
    /\ [][(pc = "compare" /\ trace' = Append(trace, CompareFailure)) =>
            /\ needs' = "false" /\ upd' = "false"
            /\ mergeRet' = "none"
            /\ failed' = failed /\ thrown' = thrown
            /\ updated' = updated /\ page' = page
            /\ pc' = "iter"]_vars
    /\ []((trace # <<>> /\ LastEvent = CompareFailure) =>
            /\ needs = "false" /\ ~Attempted /\ BranchCalls = <<>>
            /\ (pc = "iter" /\ page.left > 0) => ENABLED (IterRest \/ IterGraph))
C12_Witness ==
    /\ trace = <<CompareFailure>> /\ needs = "false" /\ upd = "false"
    /\ pc = "iter" /\ page.left > 0 /\ seen = 1
    /\ ~failed /\ ~thrown /\ config.prFilter = "all"

\* The pull request carries a label of the list.
Carries(list) == \E i \in 1..Len(pull.labels) : \E j \in 1..Len(list) : pull.labels[i] = list[j]
\* The comparison answered that the head is behind the base.
Behind == Compared /\ LastCmp.ok /\ LastCmp.behind_by > 0
\* The ready-state filter accepts the pull request.
ReadyStateAccepts ==
    \/ config.readyState = "all"
    \/ config.readyState = "draft" /\ pull.draft
    \/ config.readyState = "ready_for_review" /\ ~pull.draft

\* C13: a pull request that carries a label of the excluded set is never
\* eligible: needsUpdate never returns true for it, update ends with false,
\* whatever the comparison, the PR filter and the allow-list are, and neither the
\* protection lookup nor a merge call is issued for it.
C13_ExcludedNeverEligible ==
    (pc # "update" /\ Carries(config.excludedLabels)) =>
        /\ needs # "true"
        /\ BranchCalls = <<>>
        /\ ~Attempted
        /\ pc \in {"compare", "done"}
        /\ pc = "done" => (needs = "false" /\ upd = "false" /\ ~retBool /\ ~thrown)
C13_Witness ==
    /\ Carries(config.excludedLabels) /\ Behind
    /\ config.prFilter = "labelled" /\ Carries(config.prLabels)
    /\ pull.labels = <<"wip", "dep">> /\ config.excludedLabels = <<"dep">>
    /\ config.readyState = "all"
    /\ needs = "false" /\ pc = "done"

\* C14: with PR filter = labelled, once guards 1-6 have passed (the comparison
\* answered behind_by > 0, no excluded label, ready state accepted) needsUpdate
\* returns true exactly when the allow-list is not empty and the pull request
\* carries one of its labels; the decision needs no further call.
C14_LabelledFilter ==
    (/\ config.prFilter = "labelled" /\ Behind
     /\ ~Carries(config.excludedLabels) /\ ReadyStateAccepts) =>
        /\ needs \in {"true", "false"}
        /\ (needs = "true") <=> (config.prLabels # <<>> /\ Carries(config.prLabels))
        /\ config.prLabels = <<>> => needs = "false"
        /\ BranchCalls = <<>>
C14_Witness ==
    /\ config.prFilter = "labelled" /\ Behind /\ ReadyStateAccepts
    /\ config.prLabels = <<"dep">> /\ pull.labels = <<"wip", "dep">>
    /\ config.excludedLabels = <<>> /\ config.readyState = "draft"
    /\ needs = "true"

\* C15: with PR filter = protected, once the comparison answered behind_by > 0
\* and the earlier guards passed, the protection lookup is issued once, and when it
\* answers needsUpdate returns true for a protected base branch and false for an
\* unprotected one.
C15_ProtectedFilter ==
    (/\ config.prFilter = "protected" /\ Behind
     /\ ~Carries(config.excludedLabels) /\ ReadyStateAccepts) =>
        \/ pc = "getBranch" /\ BranchCalls = <<>> /\ needs = "none"
        \/ /\ Len(BranchCalls) = 1
           /\ BranchCalls[1].res.ok =>
                needs = (IF BranchCalls[1].res.protected THEN "true" ELSE "false")
C15_Witness ==
    /\ config.prFilter = "protected" /\ Behind /\ Len(BranchCalls) = 1
    /\ BranchCalls[1].res.ok /\ ~BranchCalls[1].res.protected
    /\ needs = "false" /\ pc = "done" /\ ~thrown

\* C16: in dry-run mode no merge call is issued, no delay is taken and the
\* conflicted output is never set (merge is not entered); the step in which
\* needsUpdate returns true makes update return true at once, the pull request is
\* counted as updated and the loop goes on; the run is never marked failed.
C16_DryRunNoMerge ==
    /\ [](config.dryRun =>
            /\ MergeTrace = <<>>
            /\ pc \notin {"merge", "sleep"}
            /\ mergeRet = "none" /\ mergeOpts = NoOpts /\ retries = 0
            /\ ~failed
            /\ needs = "true" => upd = "true")
    /\ [][(config.dryRun /\ needs # "true" /\ needs' = "true") =>
            /\ upd' = "true"
            /\ updated' = updated + 1
            /\ pc' = "iter"]_vars
C16_Witness ==
    /\ config.dryRun /\ entry = "pullsWithGraphQL" /\ pc = "done" /\ ~thrown
    /\ evaluated = 2 /\ retNum = 2 /\ needs = "true" /\ upd = "true"
    /\ Behind /\ MergeTrace = <<>>

\* The control locations at which a call or a delay of update is pending.
InFlight == pc \in {"compare", "getBranch", "merge", "sleep"}

\* C17: pull requests are processed one at a time, in enumeration order (a
\* pull request's number is its position in the enumeration).  The pull request
\* under evaluation changes only at the head of the loop, once the update of the
\* one before has returned, and to the next one of the enumeration, with a fresh
\* attempt sequence; a call or delay is pending only for the latest enumerated
\* pull request, whose update has not returned; calls, delays and outputs are
\* added to the sequence of that pull request only.
C17_OneAtATime ==
    /\ [][pull' # pull =>
            /\ pc = "iter"
            /\ pull = NoPull \/ upd \in {"true", "false"}
            /\ seen' = seen + 1 /\ pull'.number = seen'
            /\ trace' = <<>> /\ mergeRet' = "none" /\ retries' = 0]_vars
    /\ [](InFlight => (upd = "none" /\ pull.number = seen))
    /\ [][Len(trace') > Len(trace) => (InFlight /\ pull' = pull /\ seen' = seen)]_vars
C17_Witness ==
    /\ entry = "pulls" /\ ~config.dryRun /\ config.retryCount = 1
    /\ seen = 2 /\ pull.number = 2 /\ updated = 1 /\ pc = "sleep"
    /\ Len(MergeCalls) = 1 /\ upd = "none"

\* The page queries of the run and the latest of them.
LastQuery == queries[Len(queries)]
Graph == entry = "pullsWithGraphQL"

\* C18: in the graph variant a page query that fails, in any of the ways a query
\* fails, ends the run in that step: the run returns the count of the updates
\* that returned true so far, is not marked failed by it and throws nothing; the
\* failed query is the last one (no retry, no further page) and nothing is
\* evaluated after it, since no step is taken once the run has returned.
C18_QueryFailureAborts ==
    /\ [][(/\ Graph /\ Len(queries') > Len(queries)
           /\ queries'[Len(queries')].outcome \in QueryFailures) =>
            /\ pc' = "done"
            /\ retNum' = succ /\ updated' = updated
            /\ failed' = failed /\ ~thrown'
            /\ evaluated' = evaluated /\ seen' = seen /\ trace' = trace]_vars
    /\ []((Graph /\ queries # <<>> /\ LastQuery.outcome \in QueryFailures) =>
            /\ pc = "done" /\ retNum = succ
            /\ \A i \in 1..(Len(queries) - 1) : queries[i].outcome = "page")
    /\ [][pc # "done"]_vars
C18_Witness ==
    /\ Graph /\ Len(queries) = 2 /\ queries[1].outcome = "page"
    /\ LastQuery.outcome = "429" /\ pc = "done"
    /\ evaluated = 2 /\ retNum = 1 /\ ~failed /\ ~thrown

\* C19: in the graph variant a node whose headRef is null is dropped: the step
\* that takes it from the page calls no update (no call, nothing counted, the
\* pull request under evaluation stays the one before) and leaves the loop at the
\* next node; every other node goes to update in its turn; calls are pending only
\* for nodes with a headRef; after a dropped node the loop takes the next node of
\* the page or queries the next page.
C19_NullHeadRefDropped ==
    /\ [][(Graph /\ seen' = seen + 1) =>
            /\ node'.number = seen'
            /\ IF node'.headRef = NullObj
               THEN /\ evaluated' = evaluated /\ trace' = trace /\ pull' = pull
                    /\ updated' = updated /\ succ' = succ /\ failed' = failed
                    /\ pc' = "iter"
                    /\ page' = [page EXCEPT !.left = @ - 1]
               ELSE /\ evaluated' = evaluated + 1
                    /\ pull'.number = seen'
                    /\ pull'.head.ref = node'.headRef.name]_vars
    /\ []((Graph /\ InFlight) => (node.number = pull.number /\ node.headRef # NullObj))
    /\ []((Graph /\ node # NoPull /\ node.headRef = NullObj /\ pc = "iter") =>
            /\ page.left > 0 => ENABLED IterGraph
            /\ (page.left = 0 /\ page.hasNextPage) => ENABLED QueryPage)
C19_Witness ==
    /\ Graph /\ pageNo = 2 /\ seen = 3 /\ evaluated = 2 /\ updated = 1
    /\ pull.number = 3 /\ node.number = 3 /\ pc = "merge"

\* The arguments pulls / pullsWithGraphQL reject, as the claim words them.
InvalidRef == args.ref = <<>> \/ args.ref[1] # "refs/heads/"
OwnerOf(a) == IF a.repoOwnerName \in {Undefined, Null} THEN a.repoOwnerLogin ELSE a.repoOwnerName
InvalidArgs == InvalidRef \/ OwnerOf(args) = "" \/ args.repoName = ""

\* C20: when the ref does not start with refs/heads/, or the owner or the
\* repository name is empty, both variants return 0 in their first step and no
\* call of any kind is issued: no list or query, no comparison, no protection
\* lookup, no merge; nothing is thrown and the run is not marked failed.
C20_RejectsInvalidArgs ==
    InvalidArgs =>
        /\ pc \in {"start", "done"}
        /\ pc = "done" => retNum = 0
        /\ queries = <<>> /\ pageNo = 0
        /\ trace = <<>> /\ evaluated = 0 /\ seen = 0
        /\ ~thrown /\ ~failed
C20_Witness ==
    /\ Graph /\ pc = "done" /\ retNum = 0 /\ queries = <<>>
    /\ ~InvalidRef /\ OwnerOf(args) = BaseOwner /\ args.repoName = ""

\* The pull request the REST listing gives for the pull request a graph node
\* describes: the same number, state, flags, labels, base and head, and the
\* auto_merge field am, which the listing has and the node has not.
RestOf(pr, owner, am) == [convertGraphQLPRToREST(pr, owner) EXCEPT !.auto_merge = am]
\* What prNeedsUpdate returns for q when its calls get the responses recorded in
\* the current sequence.
PagedNeeds(q) ==
    IF SkippedBeforeCompare(q) THEN "false"
    ELSE LET d == DecisionAfterCompare(q, config, CompareCalls[1].res) IN
         IF d # "getBranch" THEN d
         ELSE IF BranchCalls = <<>> THEN "getBranch"
         ELSE IF ~BranchCalls[1].res.ok THEN "throw"
         ELSE IF ProtectedDecision(BranchCalls[1].res) THEN "true" ELSE "false"

\* C21: pulls and pullsWithGraphQL decide alike on equivalent data: whenever the
\* graph variant has decided on an open pull request with a headRef, the paged
\* variant, given the same pull request from the listing, the same configuration
\* and the same responses, takes the same decision (hence issues the same calls
\* and counts the same), and builds the same merge request, for every PR filter.
C21_PagedGraphEquivalent ==
    (/\ Graph /\ node # NoPull /\ node.headRef # NullObj /\ node.state = "OPEN"
     /\ pull.number = node.number /\ needs # "none") =>
        \A am \in {Null, "enabled"} :
            LET q == RestOf(node, sourceEventOwner, am) IN
            /\ PagedNeeds(q) = needs
            /\ q.head.repo # NullObj => MergeOptsFor(q, config.mergeMsg)
                                           = MergeOptsFor(pull, config.mergeMsg)

\* C22: within one decision the comparison is called at most once and the
\* protection lookup at most once, whatever follows (merge attempts, delays); the
\* lookup is issued only with PR filter = protected, right after the comparison,
\* and only when the comparison answered behind_by > 0, the pull request carries no
\* excluded label and the ready-state filter accepts it.
C22_CallsAtMostOnce ==
    /\ Len(CompareCalls) <= 1
    /\ Len(BranchCalls) <= 1
    /\ (pc = "getBranch" \/ BranchCalls # <<>>) =>
          /\ config.prFilter = "protected"
          /\ Behind
          /\ ~Carries(config.excludedLabels)
          /\ ReadyStateAccepts
          /\ trace[1].ev = "compare"
          /\ BranchCalls # <<>> => trace[2].ev = "getBranch"
C22_Witness ==
    /\ Len(CompareCalls) = 1 /\ Len(BranchCalls) = 1 /\ Len(MergeCalls) = 2
    /\ config.prFilter = "protected" /\ config.excludedLabels = <<"wip">>
    /\ config.readyState = "draft" /\ pull.labels = <<"dep">>
    /\ pc = "done"

\* The merge request update has to build for the pull request under evaluation.
ConfiguredMessage == config.mergeMsg # Null /\ config.mergeMsg # ""

\* C24: whenever merge is entered for a pull request, at each of its attempts
\* and delays and after them, the merge request names the owner and the name of
\* the pull request's head repository, its base is the pull request's head ref and
\* its head the pull request's base ref; it carries the configured commit message
\* when that message is not empty and no commit message otherwise.
C24_MergeRequest ==
    (pc \in {"merge", "sleep"} \/ Attempted) =>
        /\ mergeOpts.owner = pull.head.repo.owner.login
        /\ mergeOpts.repo = pull.head.repo.name
        /\ mergeOpts.base = pull.head.ref
        /\ mergeOpts.head = pull.base.ref
        /\ mergeOpts.base = "feat" /\ mergeOpts.head = "main"
        /\ ConfiguredMessage => mergeOpts.commit_message = config.mergeMsg
        /\ ~ConfiguredMessage => mergeOpts.commit_message = Undefined
C24_Witness ==
    /\ Len(MergeCalls) = 2 /\ pc = "sleep" /\ config.retryCount = 2
    /\ config.mergeMsg = "msg" /\ mergeOpts.commit_message = "msg"
    /\ pull.head.repo.owner.login = "fork" /\ mergeOpts.owner = "fork"
    /\ mergeOpts.base = "feat" /\ mergeOpts.head = "main"

\* A 403 against the repository's own owner.
SameOwnerForbidden(r) == ~r.ok /\ r.status = 403 /\ sourceEventOwner = mergeOpts.owner

\* C25: an attempt that fails with 403 while sourceEventOwner equals the merge
\* request's owner, and is no merge conflict, is handled as a failure without
\* status is: attempt k is followed by a delay and a further attempt while
\* k - 1 < retry count, and otherwise the failure propagates with conflicted =
\* false; merge never returns false on it.  An attempt that fails with 403 against
\* a foreign owner with the merge-conflict message is an authorization denial:
\* conflicted = false, merge returns false, nothing propagates.
C25_ForbiddenClassification ==
    /\ (Attempted /\ SameOwnerForbidden(LastResp) /\ ~ConflictSignature(LastResp)) =>
          /\ mergeRet # "false"
          /\ IF Len(MergeCalls) - 1 < config.retryCount
             THEN /\ mergeRet = "none" /\ Outputs = <<>> /\ ~thrown
                  /\ retries = Len(MergeCalls)
                  /\ pc \in {"sleep", "merge"}
             ELSE /\ mergeRet = "throw" /\ thrown /\ pc = "done"
                  /\ EndedWith(FALSE)
    /\ (Attempted /\ ForeignForbidden(LastResp) /\ ConflictSignature(LastResp)) =>
          /\ mergeRet = "false" /\ ~thrown /\ pc = "done" /\ ~retBool
          /\ EndedWith(FALSE)
C25_Witness ==
    /\ config.retryCount = 2 /\ Len(MergeCalls) = 3
    /\ \A i \in 1..3 : SameOwnerForbidden(MergeCalls[i].res) /\ MergeCalls[i].res.message = "Forbidden"
    /\ mergeRet = "throw" /\ thrown /\ Outputs = <<OutputOf(FALSE)>>

\* C23: graph pagination.  The first query carries the null cursor; a query is
\* issued only when the page before is used up and reported hasNextPage = true,
\* and it carries that page's endCursor, which is kept while the page is iterated;
\* no query follows a page that reported hasNextPage = false; no cursor is sent
\* twice (each page is queried once, in the order of the chain); the run returns
\* normally after successful queries only when the last page is used up; and the
\* run always ends.
C23_CursorPagination ==
    /\ [](queries # <<>> => queries[1].cursor = NullObj)
    /\ [][Len(queries') > Len(queries) =>
            /\ page.left = 0 /\ page.hasNextPage
            /\ Len(queries') = Len(queries) + 1
            /\ SubSeq(queries', 1, Len(queries)) = queries
            /\ queries'[Len(queries')].cursor = page.endCursor]_vars
    /\ [][queries' = queries =>
            (page'.endCursor = page.endCursor /\ page'.hasNextPage = page.hasNextPage)]_vars
    /\ [][~page.hasNextPage => queries' = queries]_vars
    /\ [](\A i, j \in 1..Len(queries) : i < j => queries[i].cursor # queries[j].cursor)
    /\ []((pc = "done" /\ ~thrown /\ queries # <<>> /\ LastQuery.outcome = "page") =>
            /\ page.left = 0 /\ ~page.hasNextPage
            /\ Len(queries) = pageNo /\ retNum = succ)
    /\ <>(pc = "done")
C23_Witness ==
    /\ Graph /\ pc = "done" /\ ~thrown /\ Len(queries) = 2
    /\ queries[1] = [cursor |-> NullObj, outcome |-> "page"]
    /\ queries[2].cursor # NullObj /\ queries[2].outcome = "page"
    /\ ~page.hasNextPage /\ seen = 3 /\ retNum = 2

====
